---- MODULE Spec2Model ----
(***************************************************************************)
(* context-rs: values provided down the async call stack through a Waker   *)
(* that carries a Provider (src/waker.rs, src/provider.rs, src/demand.rs). *)
(*                                                                         *)
(* One task is modelled.  It is a tower of ProviderFut wrappers; wrapper 1 *)
(* is the outermost one, wrapper Len(providers) the innermost.  Between    *)
(* two wrappers, and under the innermost, runs user code that may poll the *)
(* retrieval futures, wake or clone the waker of its Context, and finally  *)
(* polls the next wrapper (or, innermost, returns a Poll result).          *)
(*                                                                         *)
(* The code never inspects a provided value, so wrapper i provides the     *)
(* value i: a result then tells which wrapper answered.                    *)
(*                                                                         *)
(* Spec is that task.  SpecShutdown is the shutdown signal of well_known   *)
(* (src/well_known/shutdown.rs): a thread in ShutdownSender::shutdown and  *)
(* tasks in wait_for_signal, step by step.  SpecSignal is one task in      *)
(* run_until_signal under with_deadline and with_shutdown_handler          *)
(* wrappers, with a clock and the same sender.                             *)
(***************************************************************************)
EXTENDS Naturals, Sequences, FiniteSets

\* ------------------------------------------------------------------ bounds
MaxDepth == 2    \* wrappers nested around the innermost computation
MaxTakes == 3    \* by-value demands that reach one ProvideValue
MaxHandlers == 1 \* with_shutdown_handler wrappers around the waiting tasks
NumWaiters == 2  \* tasks that wait for the shutdown signal
MaxShutdowns == 1 \* calls of ShutdownSender::shutdown
MaxTime == 2     \* the clock runs from 0 to MaxTime; deadlines are 1..MaxTime
MaxPolls == 2    \* polls of the future handed to run_until_signal

\* ------------------------------------------------------------- input sets
Types == {"usize", "String"}
Kinds == {"ProvideRef", "ProvideValue"}
Outputs == {"out"}

\* Option<T>
None == <<>>
Some(v) == <<v>>

\* Poll<T>
Pending == <<"Pending">>
Ready(v) == <<"Ready", v>>
PollResults == {Pending} \cup {Ready(v) : v \in Outputs}

VARIABLES
    providers,  \* providers[i]: the `provider` field of wrapper i
    injected,   \* providers as they were built (never changes)
    stack,      \* ProviderWakers alive on the call stack, outermost first
    cx,         \* the waker of the Context the running code was polled with
    pc,         \* "idle" | "polling" | "unwind" | "done" | "dropped"
    ret,        \* Poll result travelling up while pc = "unwind"
    innerRes,   \* what the innermost computation returned in this poll
    polled,     \* polled[i]: polls of level i in the scheduler's current poll
    rc,         \* owners of the scheduler's waker (the scheduler + clones)
    cloned,     \* Option<Waker>: a Waker the user code cloned and kept
    demands,    \* demands[i]: by-value demands for its type that reached
                \* ProvideValue i
    last,       \* outcome of the user-code operation made in the latest step
    sh,         \* the ShutdownInner (flag, Notify) and the thread in shutdown()
    wt,         \* wt[w]: the task w that waits for the shutdown signal
    now,        \* the clock (Instant::now)
    rus         \* the task that runs run_until_signal(f)

vars == <<providers, injected, stack, cx, pc, ret, innerRes, polled, rc,
          cloned, demands, last, sh, wt, now, rus>>

\* The state of well_known, and the state of the wrappers and retrievals.
wkVars == <<sh, wt, now, rus>>
coreVars == <<providers, injected, stack, cx, pc, ret, innerRes, polled, rc,
              cloned, demands, last>>

\* --------------------------------------------------------------- wakers
\* The waker the scheduler polls the task with: some vtable that is not ours.
SchedWaker == [vtable |-> "SCHED", data |-> 0]

\* Mutant of ProviderWaker::new: the link forgets the caller's waker and wraps
\* the scheduler's, so the chain behind it is cut.
ProviderWaker_new_detached(waker, provider) ==
    [waker |-> SchedWaker, provider |-> provider]

\* ProviderWaker::new
ProviderWaker_new(waker, provider) == [waker |-> waker, provider |-> provider]

\* ProviderWaker::use_waker_with: the Waker presented to the inner poll is
\* (pointer to the ProviderWaker, &VTABLE); k is where the ProviderWaker lives.
use_waker_with(k) == [vtable |-> "VTABLE", data |-> k]

\* ProviderWaker::from_waker_ref
from_waker_ref(waker, stk) ==
    IF waker.vtable = "VTABLE" THEN Some(stk[waker.data]) ELSE None

\* ---------------------------------------------- the scheduler's own waker
\* Its effects are kept as [wakes, rc]: wake-ups delivered to the scheduler
\* and the number of owners of the handle (the scheduler holds one).
Sched_wake_by_ref(st) == [st EXCEPT !.wakes = @ + 1]
Sched_wake(st) == [st EXCEPT !.wakes = @ + 1, !.rc = @ - 1]
Sched_clone(st) == [waker |-> SchedWaker, st |-> [st EXCEPT !.rc = @ + 1]]
Sched_drop(st) == [st EXCEPT !.rc = @ - 1]

\* ------------------------------------------------ VTABLE of ProviderWaker
RECURSIVE Waker_wake_by_ref(_, _, _)
RECURSIVE Waker_clone(_, _, _)
RECURSIVE Waker_wake(_, _, _)

\* VTABLE.wake_by_ref: (*waker).waker.wake_by_ref()
VTABLE_wake_by_ref(data, st, stk) == Waker_wake_by_ref(stk[data].waker, st, stk)

\* Mutant of VTABLE.wake: forwards with wake(), which consumes the wrapped waker.
VTABLE_wake_consume(data, st, stk) == Waker_wake(stk[data].waker, st, stk)

\* VTABLE.wake: (*waker).waker.wake_by_ref()
VTABLE_wake(data, st, stk) == Waker_wake_by_ref(stk[data].waker, st, stk)

\* Mutant of VTABLE.clone: the clone keeps pointing at the ProviderWaker.
VTABLE_clone_keep(data, st, stk) == [waker |-> use_waker_with(data), st |-> st]

\* VTABLE.clone: transmute((*waker).waker.clone())
VTABLE_clone(data, st, stk) == Waker_clone(stk[data].waker, st, stk)

\* Mutant of VTABLE.drop: releases the wrapped waker, which the ProviderWaker
\* only borrows.
VTABLE_drop_release(data, st) == Sched_drop(st)

\* VTABLE.drop: nothing to release
VTABLE_drop(data, st) == st

\* Waker::wake_by_ref, Waker::wake, Waker::clone, Drop for Waker: dispatch
\* through the vtable of the handle.
Waker_wake_by_ref(w, st, stk) ==
    IF w.vtable = "VTABLE" THEN VTABLE_wake_by_ref(w.data, st, stk)
    ELSE Sched_wake_by_ref(st)

Waker_wake(w, st, stk) ==
    IF w.vtable = "VTABLE" THEN VTABLE_wake(w.data, st, stk)
    ELSE Sched_wake(st)

Waker_clone(w, st, stk) ==
    IF w.vtable = "VTABLE" THEN VTABLE_clone(w.data, st, stk)
    ELSE Sched_clone(st)

Waker_drop(w, st) ==
    IF w.vtable = "VTABLE" THEN VTABLE_drop(w.data, st)
    ELSE Sched_drop(st)

\* ------------------------------------------------------ core::any::Demand
NewDemand(form, T) == [form |-> form, ty |-> T, slot |-> None]

would_be_satisfied_by_ref_of(demand, T) ==
    demand.form = "ref" /\ demand.ty = T /\ demand.slot = None

would_be_satisfied_by_value_of(demand, T) ==
    demand.form = "value" /\ demand.ty = T /\ demand.slot = None

provide_ref(demand, T, v) ==
    IF would_be_satisfied_by_ref_of(demand, T)
    THEN [demand EXCEPT !.slot = Some(v)] ELSE demand

provide_value(demand, T, v) ==
    IF would_be_satisfied_by_value_of(demand, T)
    THEN [demand EXCEPT !.slot = Some(v)] ELSE demand

\* -------------------------------------------------------------- providers
\* A provider is [kind, ty, cell]: ProvideRef(&T) keeps cell = Some(v);
\* ProvideValue(Cell<Option<T>>) has cell = Some(v) until taken.
ProvideRef(T, v) == [kind |-> "ProvideRef", ty |-> T, cell |-> Some(v)]
ProvideValue(T, v) == [kind |-> "ProvideValue", ty |-> T, cell |-> Some(v)]

\* Mutant of ProvideRef::provide: tests for a by-value demand.
ProvideRef_provide_value_form(p, demand) ==
    IF would_be_satisfied_by_value_of(demand, p.ty)
    THEN [provider |-> p, demand |-> provide_ref(demand, p.ty, p.cell[1])]
    ELSE [provider |-> p, demand |-> demand]

\* Mutant of ProvideRef::provide: answers a demand of either form.
ProvideRef_provide_either_form(p, demand) ==
    IF demand.ty = p.ty /\ demand.slot = None
    THEN [provider |-> p, demand |-> [demand EXCEPT !.slot = Some(p.cell[1])]]
    ELSE [provider |-> p, demand |-> demand]

\* impl Provider for ProvideRef
ProvideRef_provide(p, demand) ==
    IF would_be_satisfied_by_ref_of(demand, p.ty)
    THEN [provider |-> p, demand |-> provide_ref(demand, p.ty, p.cell[1])]
    ELSE [provider |-> p, demand |-> demand]

\* Mutant of ProvideValue::provide: reads the cell without emptying it.
ProvideValue_provide_keep(p, demand) ==
    IF would_be_satisfied_by_value_of(demand, p.ty)
    THEN IF p.cell # None
         THEN [provider |-> p, demand |-> provide_value(demand, p.ty, p.cell[1])]
         ELSE [provider |-> p, demand |-> demand]
    ELSE [provider |-> p, demand |-> demand]

\* Mutant of ProvideValue::provide: empties the cell for a demand that is
\* already satisfied.
ProvideValue_provide_filled(p, demand) ==
    IF demand.form = "value" /\ demand.ty = p.ty
    THEN IF p.cell # None
         THEN [provider |-> [p EXCEPT !.cell = None],
               demand |-> provide_value(demand, p.ty, p.cell[1])]
         ELSE [provider |-> p, demand |-> demand]
    ELSE [provider |-> p, demand |-> demand]

\* Mutant of ProvideValue::provide: empties the cell for a by-reference demand.
ProvideValue_provide_any_form(p, demand) ==
    IF demand.ty = p.ty /\ demand.slot = None
    THEN IF p.cell # None
         THEN [provider |-> [p EXCEPT !.cell = None],
               demand |-> provide_value(demand, p.ty, p.cell[1])]
         ELSE [provider |-> p, demand |-> demand]
    ELSE [provider |-> p, demand |-> demand]

\* Mutant of ProvideValue::provide: gives its value to a by-value demand of
\* any type.
ProvideValue_provide_any_type(p, demand) ==
    IF demand.form = "value" /\ demand.slot = None
    THEN IF p.cell # None
         THEN [provider |-> [p EXCEPT !.cell = None],
               demand |-> [demand EXCEPT !.slot = p.cell]]
         ELSE [provider |-> p, demand |-> demand]
    ELSE [provider |-> p, demand |-> demand]

\* impl Provider for ProvideValue
ProvideValue_provide(p, demand) ==
    IF would_be_satisfied_by_value_of(demand, p.ty)
    THEN IF p.cell # None
         THEN [provider |-> [p EXCEPT !.cell = None],
               demand |-> provide_value(demand, p.ty, p.cell[1])]
         ELSE [provider |-> p, demand |-> demand]
    ELSE [provider |-> p, demand |-> demand]

\* well_known::Deadline(Instant) and its Provider impl
Deadline(d) == [kind |-> "Deadline", ty |-> "Deadline", cell |-> Some(d)]

Deadline_provide(p, demand) ==
    [provider |-> p, demand |-> provide_ref(demand, "Deadline", p.cell[1])]

\* ShutdownProvider(Option<Arc<ShutdownInner>>) and its Provider impl
ShutdownProvider(r) ==
    [kind |-> "ShutdownProvider", ty |-> "Arc<ShutdownInner>", cell |-> r]

ShutdownProvider_provide(p, demand) ==
    IF p.cell # None
    THEN [provider |-> p,
          demand |-> provide_ref(demand, "Arc<ShutdownInner>", p.cell[1])]
    ELSE [provider |-> p, demand |-> demand]

\* self.provider.provide(demand) on a &dyn Provider
Provider_provide(p, demand) ==
    CASE p.kind = "ProvideRef" -> ProvideRef_provide(p, demand)
      [] p.kind = "ProvideValue" -> ProvideValue_provide(p, demand)
      [] p.kind = "Deadline" -> Deadline_provide(p, demand)
      [] p.kind = "ShutdownProvider" -> ShutdownProvider_provide(p, demand)

\* Mutant of ProviderWaker::provide: asks the outer chain before its own provider.
RECURSIVE ProviderWaker_provide_outer_first(_, _, _, _)
ProviderWaker_provide_outer_first(pw, demand, provs, stk) ==
    LET outer == from_waker_ref(pw.waker, stk)
        r0 == IF outer # None
              THEN ProviderWaker_provide_outer_first(outer[1], demand, provs, stk)
              ELSE [demand |-> demand, providers |-> provs, visited |-> <<>>]
        r == Provider_provide(r0.providers[pw.provider], r0.demand)
    IN [demand |-> r.demand,
        providers |-> [r0.providers EXCEPT ![pw.provider] = r.provider],
        visited |-> Append(r0.visited, pw.provider)]

\* Mutant of ProviderWaker::provide: never asks the outer chain.
ProviderWaker_provide_own_only(pw, demand, provs, stk) ==
    LET r == Provider_provide(provs[pw.provider], demand)
    IN [demand |-> r.demand, providers |-> [provs EXCEPT ![pw.provider] = r.provider],
        visited |-> <<pw.provider>>]

\* impl Provider for ProviderWaker: own provider first, then the ProviderWaker
\* (if any) behind the wrapped waker.  The result is the demand and the
\* providers as the walk left them, and the providers it called, in order.
RECURSIVE ProviderWaker_provide(_, _, _, _)
ProviderWaker_provide(pw, demand, provs, stk) ==
    LET r == Provider_provide(provs[pw.provider], demand)
        provs1 == [provs EXCEPT ![pw.provider] = r.provider]
        outer == from_waker_ref(pw.waker, stk)
    IN IF outer # None
       THEN LET o == ProviderWaker_provide(outer[1], r.demand, provs1, stk)
            IN [o EXCEPT !.visited = <<pw.provider>> \o @]
       ELSE [demand |-> r.demand, providers |-> provs1,
             visited |-> <<pw.provider>>]

\* ----------------------------------------------------------------- demand.rs
\* Mutant of request_ref_from_context: unwraps the downcast.
request_ref_from_context_unwrap(waker, T, provs, stk) ==
    LET o == from_waker_ref(waker, stk)
    IN IF o = None
       THEN [res |-> None, providers |-> provs, panic |-> TRUE, walked |-> <<>>]
       ELSE LET r == ProviderWaker_provide(o[1], NewDemand("ref", T), provs, stk)
            IN [res |-> r.demand.slot, providers |-> r.providers, panic |-> FALSE,
                walked |-> r.visited]

\* Results are [res, providers, panic, walked]: the Option returned, the
\* providers as the walk left them, whether the call panicked instead of
\* returning, and the providers the walk called.
request_ref_from_context(waker, T, provs, stk) ==
    LET o == from_waker_ref(waker, stk)
    IN IF o = None
       THEN [res |-> None, providers |-> provs, panic |-> FALSE, walked |-> <<>>]
       ELSE LET r == ProviderWaker_provide(o[1], NewDemand("ref", T), provs, stk)
            IN [res |-> r.demand.slot, providers |-> r.providers, panic |-> FALSE,
                walked |-> r.visited]

request_value_from_context(waker, T, provs, stk) ==
    LET o == from_waker_ref(waker, stk)
    IN IF o = None
       THEN [res |-> None, providers |-> provs, panic |-> FALSE, walked |-> <<>>]
       ELSE LET r == ProviderWaker_provide(o[1], NewDemand("value", T), provs, stk)
            IN [res |-> r.demand.slot, providers |-> r.providers, panic |-> FALSE,
                walked |-> r.visited]

\* The closure handed to with_ref in this model: not the identity.
F(v) == v + 100

\* Option::cloned / Option::map
Option_cloned(o) == IF o = None THEN None ELSE Some(o[1])
Option_map(o) == IF o = None THEN None ELSE Some(F(o[1]))

\* The poll functions of the retrieval futures.  w is the waker of the
\* Context, st the scheduler's waker as [wakes, rc].  A result holds the Poll
\* returned, the providers and st as the poll left them, the providers
\* walked, the calls of the closure, whether the poll panicked, and field 0
\* of a WithRefFut after the poll (the closure is taken out by the first).
PollOutcome(poll, r, st, fcalls) ==
    [poll |-> poll, providers |-> r.providers, panic |-> r.panic,
     walked |-> r.walked, st |-> st, fcalls |-> fcalls, fut |-> None]

\* Mutant of GetValueFut::poll: when no value is found it wakes the waker and
\* returns Pending, to look again on the next poll.
GetValueFut_poll_wait(w, T, provs, stk, st) ==
    LET r == request_ref_from_context(w, T, provs, stk)
    IN IF r.res = None
       THEN PollOutcome(Pending, r, Waker_wake_by_ref(w, st, stk), 0)
       ELSE PollOutcome(Ready(Option_cloned(r.res)), r, st, 0)

\* GetValueFut::poll
GetValueFut_poll(w, T, provs, stk, st) ==
    LET r == request_ref_from_context(w, T, provs, stk)
    IN PollOutcome(Ready(Option_cloned(r.res)), r, st, 0)

\* TakeValueFut::poll
TakeValueFut_poll(w, T, provs, stk, st) ==
    LET r == request_value_from_context(w, T, provs, stk)
    IN PollOutcome(Ready(r.res), r, st, 0)

\* Mutant of WithRefFut::poll: a poll that finds the closure gone returns
\* Ready(None) instead of panicking.
WithRefFut_poll_lenient(f, w, T, provs, stk, st) ==
    IF f = None
    THEN [poll |-> Ready(None), providers |-> provs, panic |-> FALSE,
          walked |-> <<>>, st |-> st, fcalls |-> 0, fut |-> None]
    ELSE LET r == request_ref_from_context(w, T, provs, stk)
         IN PollOutcome(Ready(Option_map(r.res)), r, st,
                        IF r.res = None THEN 0 ELSE 1)

\* Mutant of WithRefFut::poll: the closure is applied to its own result again.
WithRefFut_poll_twice(f, w, T, provs, stk, st) ==
    IF f = None
    THEN [poll |-> Pending, providers |-> provs, panic |-> TRUE,
          walked |-> <<>>, st |-> st, fcalls |-> 0, fut |-> None]
    ELSE LET r == request_ref_from_context(w, T, provs, stk)
         IN PollOutcome(Ready(Option_map(Option_map(r.res))), r, st,
                        IF r.res = None THEN 0 ELSE 2)

\* WithRefFut::poll; f is field 0 of the future, Some(F) until the first poll.
WithRefFut_poll(f, w, T, provs, stk, st) ==
    IF f = None
    THEN [poll |-> Pending, providers |-> provs, panic |-> TRUE,
          walked |-> <<>>, st |-> st, fcalls |-> 0, fut |-> None]
    ELSE LET r == request_ref_from_context(w, T, provs, stk)
         IN PollOutcome(Ready(Option_map(r.res)), r, st,
                        IF r.res = None THEN 0 ELSE 1)

\* ------------------------------------------------------------------ states
\* provide_ref / provide_value: the provider a wrapper is built with.
NewProvider(kind, T, v) ==
    IF kind = "ProvideRef" THEN ProvideRef(T, v) ELSE ProvideValue(T, v)

\* The towers of n wrappers, each a choice of provide_ref or provide_value
\* and of a type; wrapper i provides the value i.
RECURSIVE Towers(_)
Towers(n) ==
    IF n = 0 THEN {<<>>}
    ELSE {Append(t, NewProvider(k, T, n)) : t \in Towers(n - 1), k \in Kinds, T \in Types}

\* The well_known state before anything ran: the flag clear, no call of
\* notify_waiters, no thread in shutdown(); the waiting tasks and the task of
\* run_until_signal not started.
Waiters == 1..NumWaiters
ShInit == [flag |-> FALSE, calls |-> 0, spc |-> "idle", n |-> 0]
WtInit == [w \in Waiters |->
             [pc |-> "start", recv |-> None, snap |-> 0,
              nst |-> "init", waker |-> None, woken |-> FALSE]]
RusInit == [pc |-> "new", deadline |-> None, inner |-> None, res |-> <<"none">>,
            fres |-> Pending, fpolls |-> 0, start |-> 0, called |-> FALSE,
            timer |-> FALSE, woken |-> FALSE, by |-> "-", sawA |-> "-",
            sawB |-> "-", readies |-> 0]

NoOp == [op |-> "none", ty |-> "-", res |-> None, panic |-> FALSE, depth |-> 0,
         handle |-> SchedWaker, woke |-> 0, before |-> <<>>, nth |-> <<>>,
         pending |-> FALSE, walked |-> <<>>, fcalls |-> 0, owners |-> 1,
         fut |-> None]

Init ==
    /\ \E n \in 0..MaxDepth : providers \in Towers(n)
    /\ injected = providers
    /\ stack = <<>>
    /\ cx = SchedWaker
    /\ pc = "idle"
    /\ ret = Pending
    /\ innerRes = Pending
    /\ polled = [i \in 1..(Len(providers) + 1) |-> 0]
    /\ rc = 1
    /\ cloned = None
    /\ demands = [i \in 1..Len(providers) |-> 0]
    /\ last = NoOp
    /\ sh = ShInit
    /\ wt = WtInit
    /\ now = 0
    /\ rus = RusInit

\* ----------------------------------------------------------------- actions
Depth == Len(stack)

\* The scheduler polls the task with its own waker.
SchedulerPoll ==
    /\ pc = "idle"
    /\ pc' = "polling"
    /\ cx' = SchedWaker
    /\ polled' = [i \in DOMAIN polled |-> 0]
    /\ last' = NoOp
    /\ UNCHANGED <<providers, injected, stack, ret, innerRes, rc, cloned, demands>>
    /\ UNCHANGED wkVars

\* ProviderFut::poll, down to the call of inner.poll: a ProviderWaker is built
\* from the caller's waker and this wrapper's provider, and the inner future
\* is polled with the Waker made of it.
ProviderFut_poll ==
    /\ pc = "polling"
    /\ Depth < Len(providers)
    /\ stack' = Append(stack, ProviderWaker_new(cx, Depth + 1))
    /\ cx' = use_waker_with(Depth + 1)
    /\ polled' = [polled EXCEPT ![Depth + 1] = @ + 1]
    /\ last' = NoOp
    /\ UNCHANGED <<providers, injected, pc, ret, innerRes, rc, cloned, demands>>
    /\ UNCHANGED wkVars

\* The innermost computation returns from its poll.
InnerReturn ==
    /\ pc = "polling"
    /\ Depth = Len(providers)
    /\ \E r \in PollResults :
          /\ ret' = r
          /\ innerRes' = r
    /\ pc' = "unwind"
    /\ polled' = [polled EXCEPT ![Depth + 1] = @ + 1]
    /\ last' = NoOp
    /\ UNCHANGED <<providers, injected, stack, cx, rc, cloned, demands>>
    /\ UNCHANGED wkVars

\* Mutant of ProviderFut::poll: reports Pending whatever the inner poll returned.
ProviderFut_output_pending(r) == Pending

\* What ProviderFut::poll returns, given what inner.poll returned.
ProviderFut_output(r) == r

\* ProviderFut::poll, from the return of inner.poll: the Waker made in
\* use_waker_with is dropped and the result handed to the caller.
ProviderFut_return ==
    /\ pc = "unwind"
    /\ stack # <<>>
    /\ rc' = Waker_drop(cx, [wakes |-> 0, rc |-> rc]).rc
    /\ ret' = ProviderFut_output(ret)
    /\ cx' = stack[Depth].waker
    /\ stack' = SubSeq(stack, 1, Depth - 1)
    /\ last' = NoOp
    /\ UNCHANGED <<providers, injected, pc, innerRes, polled, cloned, demands>>
    /\ UNCHANGED wkVars

\* The outermost poll returns to the scheduler.
SchedulerReturn ==
    /\ pc = "unwind"
    /\ stack = <<>>
    /\ pc' = IF ret = Pending THEN "idle" ELSE "done"
    /\ last' = NoOp
    /\ UNCHANGED <<providers, injected, stack, cx, ret, innerRes, polled, rc,
                   cloned, demands>>
    /\ UNCHANGED wkVars

\* The wakers user code can poll a future with: the one of its Context, or
\* a Waker it cloned earlier.
Handles == {cx} \cup (IF cloned = None THEN {} ELSE {cloned[1]})

\* The ProvideValues a by-value demand for T made at the present depth
\* through the waker w reaches.
Reached(T, w) ==
    IF w.vtable = "VTABLE"
    THEN {i \in 1..w.data : injected[i].kind = "ProvideValue" /\ injected[i].ty = T}
    ELSE {}

\* What an operation made with the waker w did: its result (or panic), the
\* wake-ups it delivered to the scheduler, and the providers and demand counts
\* it started from.
Outcome(op, T, res, panic, w, woke) ==
    [op |-> op, ty |-> T, res |-> res, panic |-> panic, depth |-> Depth,
     handle |-> w, woke |-> woke, before |-> providers, nth |-> demands,
     pending |-> FALSE, walked |-> <<>>, fcalls |-> 0, owners |-> rc,
     fut |-> None]

\* The outcome of a poll r of a retrieval future: the Option it resolved to,
\* or that it returned Pending; the providers its walk called; the calls of
\* the closure; the owners of the scheduler's waker before it.
Polled(op, T, w, r) ==
    [Outcome(op, T, IF r.poll = Pending THEN None ELSE r.poll[2], r.panic, w,
             r.st.wakes)
       EXCEPT !.pending = (r.poll = Pending /\ ~r.panic),
              !.walked = r.walked,
              !.fcalls = r.fcalls,
              !.fut = r.fut]

\* get_value::<T>().await : GetValueFut::poll
GetValue(T, w) ==
    /\ pc = "polling"
    /\ LET r == GetValueFut_poll(w, T, providers, stack, [wakes |-> 0, rc |-> rc])
       IN /\ providers' = r.providers
          /\ rc' = r.st.rc
          /\ last' = Polled("get_value", T, w, r)
    /\ UNCHANGED <<injected, stack, cx, pc, ret, innerRes, polled, cloned,
                   demands>>
    /\ UNCHANGED wkVars

\* with_ref::<T>(F).await : WithRefFut::poll of a fresh future
WithRef(T, w) ==
    /\ pc = "polling"
    /\ LET r == WithRefFut_poll(Some("F"), w, T, providers, stack,
                                [wakes |-> 0, rc |-> rc])
       IN /\ providers' = r.providers
          /\ rc' = r.st.rc
          /\ last' = Polled("with_ref", T, w, r)
    /\ UNCHANGED <<injected, stack, cx, pc, ret, innerRes, polled, cloned,
                   demands>>
    /\ UNCHANGED wkVars

\* take_value::<T>().await : TakeValueFut::poll
TakeValue(T, w) ==
    /\ pc = "polling"
    /\ \A i \in Reached(T, w) : demands[i] < MaxTakes
    /\ LET r == TakeValueFut_poll(w, T, providers, stack, [wakes |-> 0, rc |-> rc])
       IN /\ providers' = r.providers
          /\ rc' = r.st.rc
          /\ last' = Polled("take_value", T, w, r)
    /\ demands' = [i \in DOMAIN demands |->
                      IF i \in Reached(T, w) THEN demands[i] + 1 ELSE demands[i]]
    /\ UNCHANGED <<injected, stack, cx, pc, ret, innerRes, polled, cloned>>
    /\ UNCHANGED wkVars

\* cx.waker().wake_by_ref()
WakeByRef ==
    /\ pc = "polling"
    /\ LET st == Waker_wake_by_ref(cx, [wakes |-> 0, rc |-> rc], stack)
       IN /\ rc' = st.rc
          /\ last' = Outcome("wake_by_ref", "-", None, FALSE, cx, st.wakes)
    /\ UNCHANGED <<providers, injected, stack, cx, pc, ret, innerRes, polled,
                   cloned, demands>>
    /\ UNCHANGED wkVars

\* Waker::wake on the Waker presented by use_waker_with: the vtable's wake
\* entry runs and the Waker is forgotten, not dropped.
Wake ==
    /\ pc = "polling"
    /\ cx.vtable = "VTABLE"
    /\ LET st == Waker_wake(cx, [wakes |-> 0, rc |-> rc], stack)
       IN /\ rc' = st.rc
          /\ last' = Outcome("wake", "-", None, FALSE, cx, st.wakes)
    /\ UNCHANGED <<providers, injected, stack, cx, pc, ret, innerRes, polled,
                   cloned, demands>>
    /\ UNCHANGED wkVars

\* cx.waker().clone(), the clone being kept by user code
Clone ==
    /\ pc = "polling"
    /\ cloned = None
    /\ LET c == Waker_clone(cx, [wakes |-> 0, rc |-> rc], stack)
       IN /\ cloned' = Some(c.waker)
          /\ rc' = c.st.rc
          /\ last' = Outcome("clone", "-", None, FALSE, cx, c.st.wakes)
    /\ UNCHANGED <<providers, injected, stack, cx, pc, ret, innerRes, polled,
                   demands>>
    /\ UNCHANGED wkVars

\* The kept clone is woken by value, which consumes it (from anywhere, at
\* any time: it is an owned Waker).
WakeClone ==
    /\ cloned # None
    /\ LET st == Waker_wake(cloned[1], [wakes |-> 0, rc |-> rc], stack)
       IN /\ rc' = st.rc
          /\ last' = Outcome("wake_clone", "-", None, FALSE, cloned[1], st.wakes)
    /\ cloned' = None
    /\ UNCHANGED <<providers, injected, stack, cx, pc, ret, innerRes, polled,
                   demands>>
    /\ UNCHANGED wkVars

\* The kept clone is dropped.
DropClone ==
    /\ cloned # None
    /\ rc' = Waker_drop(cloned[1], [wakes |-> 0, rc |-> rc]).rc
    /\ last' = Outcome("drop_clone", "-", None, FALSE, cloned[1], 0)
    /\ cloned' = None
    /\ UNCHANGED <<providers, injected, stack, cx, pc, ret, innerRes, polled,
                   demands>>
    /\ UNCHANGED wkVars

\* The task (the tower of ProviderFuts and the computation inside) is
\* discarded between two polls: never polled, still pending, or finished.
\* ProviderFut has no Drop of its own, so its fields are dropped and nothing
\* else runs.
DropTask ==
    /\ pc \in {"idle", "done"}
    /\ pc' = "dropped"
    /\ providers' = <<>>
    /\ last' = NoOp
    /\ UNCHANGED <<injected, stack, cx, ret, innerRes, polled, rc, cloned, demands>>
    /\ UNCHANGED wkVars

\* After the task is gone the scheduler polls another computation, under no
\* wrapper, with the same waker; it runs one of the three retrievals.
Unrelated(T, op) ==
    /\ pc = "dropped"
    /\ LET st == [wakes |-> 0, rc |-> rc]
           r == CASE op = "get_value" -> GetValueFut_poll(cx, T, providers, stack, st)
                  [] op = "with_ref" ->
                        WithRefFut_poll(Some("F"), cx, T, providers, stack, st)
                  [] op = "take_value" -> TakeValueFut_poll(cx, T, providers, stack, st)
       IN /\ providers' = r.providers
          /\ rc' = r.st.rc
          /\ last' = Polled(op, T, cx, r)
    /\ UNCHANGED <<injected, stack, cx, pc, ret, innerRes, polled, cloned,
                   demands>>
    /\ UNCHANGED wkVars

Next ==
    \/ SchedulerPoll
    \/ ProviderFut_poll
    \/ InnerReturn
    \/ ProviderFut_return
    \/ SchedulerReturn
    \/ \E T \in Types, w \in Handles : GetValue(T, w)
    \/ \E T \in Types, w \in Handles : WithRef(T, w)
    \/ \E T \in Types, w \in Handles : TakeValue(T, w)
    \/ WakeByRef
    \/ Wake
    \/ Clone
    \/ WakeClone
    \/ DropClone
    \/ DropTask
    \/ \E T \in Types, op \in {"get_value", "with_ref", "take_value"} :
          Unrelated(T, op)

Spec == Init /\ [][Next]_vars

\* ---------------------------------------------- well_known: the shutdown
\* The tasks of this part are polled under the tower `providers` of
\* with_shutdown_handler / with_deadline wrappers.  Each task has its poll's
\* call stack to itself; the links on it are those ProviderFut::poll builds.
RECURSIVE Links(_)
Links(n) ==
    IF n = 0 THEN <<>>
    ELSE Append(Links(n - 1),
                ProviderWaker_new(IF n = 1 THEN SchedWaker
                                  ELSE use_waker_with(n - 1), n))

\* The waker of the Context a task under n wrappers is polled with.
CxAt(n) == IF n = 0 THEN SchedWaker ELSE use_waker_with(n)

\* The towers of at most n with_shutdown_handler wrappers.  The receiver
\* handed to one comes from the sender (Some) or from a from_context() that
\* found no handler (None).
RECURSIVE ShutdownTowers(_)
ShutdownTowers(n) ==
    IF n = 0 THEN {<<>>}
    ELSE ShutdownTowers(n - 1) \cup
         {Append(t, ShutdownProvider(r)) :
             t \in {u \in ShutdownTowers(n - 1) : Len(u) = n - 1},
             r \in {None, Some(1)}}

\* ShutdownReceiver::from_context: Self(get_value().await)
ShutdownReceiver_from_context(w, provs, stk) ==
    GetValueFut_poll(w, "Arc<ShutdownInner>", provs, stk,
                     [wakes |-> 0, rc |-> 1]).poll[2]

\* tokio's Notify, as its documentation states it.  notified() remembers the
\* number of notify_waiters calls made so far.
Notify_notified(s) == s.calls

\* Notified::poll.  Polled first, it is Ready if notify_waiters was called
\* since notified(), and else joins the waiters with a clone of the waker;
\* polled again, it is Ready once notify_waiters has notified it.
Notified_poll(t, s, waker, stk) ==
    CASE t.nst = "init" ->
            IF s.calls # t.snap THEN [t EXCEPT !.nst = "done", !.pc = "done"]
            ELSE [t EXCEPT !.nst = "waiting", !.pc = "pending",
                     !.waker = Some(Waker_clone(waker, [wakes |-> 0, rc |-> 1],
                                                stk).waker)]
      [] t.nst = "waiting" -> [t EXCEPT !.pc = "pending"]
      [] t.nst = "notified" -> [t EXCEPT !.nst = "done", !.pc = "done"]
      [] t.nst = "done" -> [t EXCEPT !.pc = "done"]

\* Notify::notify_waiters: counts the call, and notifies and wakes every
\* waiter in the list.  The wakers are woken after the polls that stored
\* them returned or while they run; either way through the clone alone.
Notify_notify_waiters(s, ws) ==
    [sh |-> [s EXCEPT !.calls = @ + 1],
     wt |-> [w \in DOMAIN ws |->
               IF ws[w].nst = "waiting"
               THEN [ws[w] EXCEPT
                       !.nst = "notified",
                       !.woken = Waker_wake(ws[w].waker[1],
                                            [wakes |-> 0, rc |-> 1], <<>>).wakes > 0,
                       !.waker = None]
               ELSE ws[w]]]

\* Mutant of ShutdownSender::shutdown: the flag is not stored.
Shutdown_flag_unset(s) == [s EXCEPT !.spc = "stored"]

\* ShutdownSender::shutdown, first statement: shutdown.store(true, Release)
Shutdown_flag(s) == [s EXCEPT !.flag = TRUE, !.spc = "stored"]

InitShutdown ==
    /\ providers \in ShutdownTowers(MaxHandlers)
    /\ injected = providers
    /\ stack = <<>>
    /\ cx = SchedWaker
    /\ pc = "idle"
    /\ ret = Pending
    /\ innerRes = Pending
    /\ polled = [i \in 1..(Len(providers) + 1) |-> 0]
    /\ rc = 1
    /\ cloned = None
    /\ demands = [i \in 1..Len(providers) |-> 0]
    /\ last = NoOp
    /\ sh = ShInit
    /\ wt = WtInit
    /\ now = 0
    /\ rus = RusInit

\* A thread enters shutdown() and stores the flag.
Shutdown_store ==
    /\ sh.spc = "idle"
    /\ sh.n < MaxShutdowns
    /\ sh' = Shutdown_flag(sh)
    /\ UNCHANGED <<wt, now, rus>>
    /\ UNCHANGED coreVars

\* shutdown(), second statement: notifier.notify_waiters(); the call returns.
Shutdown_notify ==
    /\ sh.spc = "stored"
    /\ LET r == Notify_notify_waiters(sh, wt)
       IN /\ sh' = [r.sh EXCEPT !.spc = "idle", !.n = @ + 1]
          /\ wt' = r.wt
    /\ UNCHANGED <<now, rus>>
    /\ UNCHANGED coreVars

\* Task w gets its receiver from the sender: ShutdownSender::receiver
Receiver(w) ==
    /\ wt[w].pc = "start"
    /\ wt' = [wt EXCEPT ![w].pc = "have", ![w].recv = Some(1)]
    /\ UNCHANGED <<sh, now, rus>>
    /\ UNCHANGED coreVars

\* Task w, polled under the tower, gets its receiver from the context.
FromContext(w) ==
    /\ wt[w].pc = "start"
    /\ wt' = [wt EXCEPT
                ![w].pc = "have",
                ![w].recv = ShutdownReceiver_from_context(
                                CxAt(Len(providers)), providers,
                                Links(Len(providers)))]
    /\ UNCHANGED <<sh, now, rus>>
    /\ UNCHANGED coreVars

\* wait_for_signal, to its first await: with no ShutdownInner it returns;
\* else the ShutdownSignal is built, notified() being called now.
WaitForSignal(w) ==
    /\ wt[w].pc = "have"
    /\ wt' = [wt EXCEPT ![w] =
                IF @.recv = None THEN [@ EXCEPT !.pc = "done"]
                ELSE [@ EXCEPT !.pc = "poll", !.snap = Notify_notified(sh),
                               !.nst = "init"]]
    /\ UNCHANGED <<sh, now, rus>>
    /\ UNCHANGED coreVars

\* ShutdownSignal::poll: shutdown.load(Acquire)
ShutdownSignal_load(w) ==
    /\ wt[w].pc = "poll"
    /\ wt' = [wt EXCEPT ![w].pc = IF sh.flag THEN "done" ELSE "loaded"]
    /\ UNCHANGED <<sh, now, rus>>
    /\ UNCHANGED coreVars

\* ShutdownSignal::poll: the flag was clear, this.notified.poll(cx)
ShutdownSignal_notified(w) ==
    /\ wt[w].pc = "loaded"
    /\ wt' = [wt EXCEPT ![w] = Notified_poll(@, sh, CxAt(Len(providers)),
                                             Links(Len(providers)))]
    /\ UNCHANGED <<sh, now, rus>>
    /\ UNCHANGED coreVars

\* The scheduler polls a task whose waker was woken.
SchedulerRepoll(w) ==
    /\ wt[w].pc = "pending"
    /\ wt[w].woken
    /\ wt' = [wt EXCEPT ![w].pc = "poll", ![w].woken = FALSE]
    /\ UNCHANGED <<sh, now, rus>>
    /\ UNCHANGED coreVars

\* A task is polled though nothing woke it (its future is part of a larger
\* one that was woken for another reason).
SpuriousPoll(w) ==
    /\ wt[w].pc = "pending"
    /\ ~wt[w].woken
    /\ wt' = [wt EXCEPT ![w].pc = "poll"]
    /\ UNCHANGED <<sh, now, rus>>
    /\ UNCHANGED coreVars

NextShutdown ==
    \/ Shutdown_store
    \/ Shutdown_notify
    \/ \E w \in Waiters : Receiver(w)
    \/ \E w \in Waiters : FromContext(w)
    \/ \E w \in Waiters : WaitForSignal(w)
    \/ \E w \in Waiters : ShutdownSignal_load(w)
    \/ \E w \in Waiters : ShutdownSignal_notified(w)
    \/ \E w \in Waiters : SchedulerRepoll(w)
    \/ \E w \in Waiters : SpuriousPoll(w)

\* A thread inside shutdown() runs on, a task being polled runs to the end of
\* its poll, and the scheduler polls a task that was woken.  Nothing makes
\* anybody call shutdown() or start to wait.
FairShutdown ==
    /\ WF_vars(Shutdown_notify)
    /\ \A w \in Waiters :
          /\ WF_vars(ShutdownSignal_load(w))
          /\ WF_vars(ShutdownSignal_notified(w))
          /\ WF_vars(SchedulerRepoll(w))

SpecShutdown == InitShutdown /\ [][NextShutdown]_vars /\ FairShutdown

\* ------------------------------------------ well_known: run_until_signal
\* One task runs run_until_signal(f) under the tower `providers` of
\* with_deadline and with_shutdown_handler wrappers.  f is told by the polls
\* it has had.  The ShutdownSignal of the task is the waiter wt[1].
Instants == 1..MaxTime

\* The wrappers a tower is built of.
WellKnownProviders ==
    {Deadline(d) : d \in Instants} \cup {ShutdownProvider(r) : r \in {None, Some(1)}}

RECURSIVE SignalTowers(_)
SignalTowers(n) ==
    IF n = 0 THEN {<<>>}
    ELSE SignalTowers(n - 1) \cup
         {Append(t, p) : t \in {u \in SignalTowers(n - 1) : Len(u) = n - 1},
                         p \in WellKnownProviders}

\* Deadline::get: with_ref(|Deadline(deadline)| *deadline)
Deadline_get(w, provs, stk) ==
    request_ref_from_context(w, "Deadline", provs, stk).res

\* tokio::time::sleep_until(deadline), polled at instant t
Sleep_ready(deadline, t) == t >= deadline

\* Mutant of SignalOrCompleteFut::poll: a poll that finds inner empty goes on
\* with a fresh future instead of panicking.
SignalOrCompleteFut_take_lenient(inner) ==
    IF inner = None THEN [panic |-> FALSE, f |-> 0]
    ELSE [panic |-> FALSE, f |-> inner[1]]

\* SignalOrCompleteFut::poll: this.inner.take().expect("cannot poll Select
\* twice")
SignalOrCompleteFut_take(inner) ==
    IF inner = None THEN [panic |-> TRUE, f |-> 0]
    ELSE [panic |-> FALSE, f |-> inner[1]]

\* Mutant of SignalOrCompleteFut::poll: inner is not put back.
SignalOrCompleteFut_put_back_forget(f) == None

\* SignalOrCompleteFut::poll: *this.inner = Some(f) before Poll::Pending
SignalOrCompleteFut_put_back(f) == Some(f)

\* Mutant of SignalOrCompleteFut::poll: b is polled before a.
SignalOrCompleteFut_after_b_first(step) ==
    CASE step = "f" -> "b"
      [] step = "b" -> "a"
      [] step = "a" -> "pending"

\* SignalOrCompleteFut::poll: the order of its statements.  inner is polled
\* first, then a, then b, then the poll returns Pending.
SignalOrCompleteFut_after(step) ==
    CASE step = "f" -> "a"
      [] step = "a" -> "b"
      [] step = "b" -> "pending"

\* The task as the statement `step` leaves it when it did not return: at
\* the next statement, or returned Pending with f put back.
Advance(r, step, f) ==
    IF SignalOrCompleteFut_after(step) = "pending"
    THEN [r EXCEPT !.pc = "pending", !.res = Pending,
                   !.inner = SignalOrCompleteFut_put_back(f)]
    ELSE [r EXCEPT !.pc = SignalOrCompleteFut_after(step)]

\* The task as a statement leaves it when it returned the Output out.
Finish(r, out, step) ==
    [r EXCEPT !.pc = "ready", !.res = out, !.by = step, !.readies = @ + 1]

\* SignalOrCompleteFut::poll, after inner.poll returned r: the Output if it
\* returns here.
SignalOrCompleteFut_poll_f(r) ==
    IF r # Pending THEN Some(<<"Completed", r[2]>>) ELSE None

\* Mutant of SignalOrCompleteFut::poll: the sleep is not polled.
SignalOrCompleteFut_poll_a_skip(deadline, t, f) == None

\* SignalOrCompleteFut::poll, the poll of a (the sleep) at instant t, f
\* being the inner future taken out.
SignalOrCompleteFut_poll_a(deadline, t, f) ==
    IF deadline # None /\ Sleep_ready(deadline[1], t)
    THEN Some(<<"ShutdownSignal", f>>) ELSE None

\* SignalOrCompleteFut::poll, the poll of b (the ShutdownSignal) returned
\* ready or not.
SignalOrCompleteFut_poll_b(ready, f) ==
    IF ready THEN Some(<<"ShutdownSignal", f>>) ELSE None

InitSignal ==
    /\ providers \in SignalTowers(MaxDepth)
    /\ injected = providers
    /\ stack = <<>>
    /\ cx = SchedWaker
    /\ pc = "idle"
    /\ ret = Pending
    /\ innerRes = Pending
    /\ polled = [i \in 1..(Len(providers) + 1) |-> 0]
    /\ rc = 1
    /\ cloned = None
    /\ demands = [i \in 1..Len(providers) |-> 0]
    /\ last = NoOp
    /\ sh = ShInit
    /\ wt = WtInit
    /\ now = 0
    /\ rus = RusInit

\* The clock advances; a timer registered by the sleep wakes the task when
\* its deadline is reached.
Tick ==
    /\ now < MaxTime
    /\ now' = now + 1
    /\ rus' = IF rus.timer /\ rus.deadline # None /\ Sleep_ready(rus.deadline[1], now')
              THEN [rus EXCEPT !.woken = TRUE, !.timer = FALSE]
              ELSE rus
    /\ UNCHANGED <<sh, wt>>
    /\ UNCHANGED coreVars

\* run_until_signal, first poll, to the poll of the SignalOrCompleteFut: the
\* deadline and the shutdown handler are read from the context and the
\* future is built, with notified() called now.
Run_first ==
    /\ rus.pc = "new"
    /\ LET n == Len(providers)
           recv == ShutdownReceiver_from_context(CxAt(n), providers, Links(n))
       IN /\ rus' = [rus EXCEPT !.pc = "f",
                                !.deadline = Deadline_get(CxAt(n), providers, Links(n)),
                                !.inner = Some(0),
                                !.start = now,
                                !.called = sh.flag]
          /\ wt' = [wt EXCEPT ![1] =
                      IF recv = None THEN @
                      ELSE [@ EXCEPT !.recv = recv,
                                     !.snap = Notify_notified(sh), !.nst = "init"]]
    /\ UNCHANGED <<sh, now>>
    /\ UNCHANGED coreVars

\* SignalOrCompleteFut::poll: inner is taken, or the poll panics; f is
\* polled.
Run_poll_f ==
    /\ rus.pc = "f"
    /\ LET t == SignalOrCompleteFut_take(rus.inner)
       IN IF t.panic
          THEN rus' = [rus EXCEPT !.pc = "panicked"]
          ELSE \E r \in PollResults :
                  LET f == t.f + 1
                      out == SignalOrCompleteFut_poll_f(r)
                      polled1 == [rus EXCEPT !.inner = None, !.fres = r,
                                            !.fpolls = f]
                  IN rus' = IF out # None THEN Finish(polled1, out[1], "f")
                            ELSE Advance(polled1, "f", f)
    /\ UNCHANGED <<sh, wt, now>>
    /\ UNCHANGED coreVars

\* SignalOrCompleteFut::poll: a, the sleep, is polled.
Run_poll_a ==
    /\ rus.pc = "a"
    /\ LET out == SignalOrCompleteFut_poll_a(rus.deadline, now, rus.fpolls)
       IN rus' = IF out # None
                 THEN Finish([rus EXCEPT !.sawA = "ready"], out[1], "a")
                 ELSE Advance([rus EXCEPT !.timer = (rus.deadline # None),
                                          !.sawA = IF rus.deadline = None
                                                   THEN "none" ELSE "notready"],
                              "a", rus.fpolls)
    /\ UNCHANGED <<sh, wt, now>>
    /\ UNCHANGED coreVars

\* SignalOrCompleteFut::poll: b is None, or ShutdownSignal::poll loads the
\* flag.
Run_poll_b ==
    /\ rus.pc = "b"
    /\ LET out == SignalOrCompleteFut_poll_b(sh.flag, rus.fpolls)
       IN rus' = IF wt[1].recv = None
                 THEN Advance([rus EXCEPT !.sawB = "none"], "b", rus.fpolls)
                 ELSE IF out # None
                      THEN Finish([rus EXCEPT !.sawB = "ready"], out[1], "b")
                      ELSE [rus EXCEPT !.pc = "b_notified"]
    /\ UNCHANGED <<sh, wt, now>>
    /\ UNCHANGED coreVars

\* SignalOrCompleteFut::poll: the flag was clear and ShutdownSignal::poll
\* polls the notification.
Run_poll_notified ==
    /\ rus.pc = "b_notified"
    /\ LET n == Len(providers)
           t == Notified_poll(wt[1], sh, CxAt(n), Links(n))
           out == SignalOrCompleteFut_poll_b(t.pc = "done", rus.fpolls)
       IN /\ wt' = [wt EXCEPT ![1] = [t EXCEPT !.pc = "start"]]
          /\ rus' = IF out # None
                    THEN Finish([rus EXCEPT !.sawB = "ready"], out[1], "b")
                    ELSE Advance([rus EXCEPT !.sawB = "notready"], "b", rus.fpolls)
    /\ UNCHANGED <<sh, now>>
    /\ UNCHANGED coreVars

\* The scheduler polls the task again after a Pending: woken by the timer,
\* by notify_waiters or by f, or for no reason of its own.
Run_repoll ==
    /\ rus.pc = "pending"
    /\ rus.fpolls < MaxPolls
    /\ rus' = [rus EXCEPT !.pc = "f", !.start = now, !.called = sh.flag,
                          !.woken = FALSE, !.res = <<"none">>,
                          !.sawA = "-", !.sawB = "-"]
    /\ wt' = [wt EXCEPT ![1].woken = FALSE]
    /\ UNCHANGED <<sh, now>>
    /\ UNCHANGED coreVars

\* Code of the task, before it calls run_until_signal, makes a with_ref
\* future for the deadline (as Deadline::get does) and polls it by hand.
WithRef_first ==
    /\ rus.pc = "new"
    /\ last.op = "none"
    /\ LET n == Len(providers)
           r == WithRefFut_poll(Some("F"), CxAt(n), "Deadline", providers,
                                Links(n), [wakes |-> 0, rc |-> rc])
       IN last' = [Polled("with_ref", "Deadline", CxAt(n), r) EXCEPT !.depth = n]
    /\ UNCHANGED <<providers, injected, stack, cx, pc, ret, innerRes, polled,
                   rc, cloned, demands>>
    /\ UNCHANGED wkVars

\* It polls that future again though it has resolved.
WithRef_again ==
    /\ rus.pc = "new"
    /\ last.op = "with_ref"
    /\ LET n == Len(providers)
           r == WithRefFut_poll(last.fut, CxAt(n), "Deadline", providers,
                                Links(n), [wakes |-> 0, rc |-> rc])
       IN last' = [Polled("with_ref_again", "Deadline", CxAt(n), r)
                     EXCEPT !.depth = n]
    /\ UNCHANGED <<providers, injected, stack, cx, pc, ret, innerRes, polled,
                   rc, cloned, demands>>
    /\ UNCHANGED wkVars

\* The future is polled again after it returned Ready.
Run_poll_done ==
    /\ rus.pc = "ready"
    /\ rus' = [rus EXCEPT !.pc = "f"]
    /\ UNCHANGED <<sh, wt, now>>
    /\ UNCHANGED coreVars

NextSignal ==
    \/ Tick
    \/ Shutdown_store
    \/ Shutdown_notify
    \/ Run_first
    \/ Run_poll_f
    \/ Run_poll_a
    \/ Run_poll_b
    \/ Run_poll_notified
    \/ Run_repoll
    \/ Run_poll_done
    \/ WithRef_first
    \/ WithRef_again

SpecSignal == InitSignal /\ [][NextSignal]_vars

\* ------------------------------------------------------------- properties
Retrievals == {"get_value", "with_ref", "take_value"}
Wrappers == 1..Len(injected)

\* The operation was made with a Waker that decodes as a ProviderWaker.
Decorated(o) == o.handle.vtable = "VTABLE"

\* The operation was polled under wrapper k, through the substituted waker.
Under(o, k) == Decorated(o) /\ o.depth >= k

ValueOf(k) == injected[k].cell[1]
Max(S) == CHOOSE i \in S : \A j \in S : j <= i

\* The member of S with exactly n members of S nearer (greater) than it.
NthNearest(S, n) == CHOOSE i \in S : Cardinality({j \in S : j > i}) = n

SoleProvider(k) == {i \in Wrappers : injected[i].ty = injected[k].ty} = {k}

\* C1: under a provide_value wrapper that is the only provider of T, the
\* first take_value::<T>() polled under it returns Some(v) and every later
\* one, at any depth and in any poll, returns None.
C1_TakeOnce ==
    \A k \in Wrappers :
        ( /\ injected[k].kind = "ProvideValue"
          /\ SoleProvider(k)
          /\ last.op = "take_value"
          /\ last.ty = injected[k].ty
          /\ Under(last, k) )
        => last.res = IF last.nth[k] = 0 THEN Some(ValueOf(k)) ELSE None

\* A second take_value, polled one wrapper deeper, has returned None.
C1_Witness ==
    \E k \in Wrappers :
        /\ injected[k].kind = "ProvideValue"
        /\ SoleProvider(k)
        /\ last.op = "take_value"
        /\ last.ty = injected[k].ty
        /\ Under(last, k)
        /\ last.depth > k
        /\ last.nth[k] = 1
        /\ last.res = None

\* The provide_value wrappers of type T.
ValueWrappers(T) ==
    {i \in Wrappers : injected[i].kind = "ProvideValue" /\ injected[i].ty = T}

\* C2: with several provide_value wrappers of T nested, the take_value::<T>()
\* calls of the innermost computation return the values nearest wrapper
\* first, outermost last, and None once all are consumed.
C2_NearestFirst ==
    ( /\ last.op = "take_value"
      /\ Decorated(last)
      /\ last.depth = Len(injected)
      /\ Cardinality(ValueWrappers(last.ty)) >= 2
      /\ \A i, j \in ValueWrappers(last.ty) : last.nth[i] = last.nth[j] )
    => LET VW == ValueWrappers(last.ty)
           n == last.nth[Max(VW)]
       IN last.res = IF n < Cardinality(VW)
                     THEN Some(ValueOf(NthNearest(VW, n))) ELSE None

\* Outer "a", inner "b": the third take_value has returned None.
C2_Witness ==
    /\ last.op = "take_value"
    /\ Decorated(last)
    /\ last.depth = Len(injected)
    /\ Cardinality(ValueWrappers(last.ty)) = 2
    /\ \A i \in ValueWrappers(last.ty) : last.nth[i] = 2
    /\ last.res = None

\* The provide_ref wrappers of type T among the outermost d wrappers.
RefWrappers(T, d) ==
    {i \in 1..d : injected[i].kind = "ProvideRef" /\ injected[i].ty = T}

RefResult(o, v) == IF o.op = "with_ref" THEN Some(F(v)) ELSE Some(v)

\* C3: under nested provide_ref wrappers of the same type, get_value and
\* with_ref observe the value of the nearest enclosing one only.
C3_NearestRefShadows ==
    ( /\ last.op \in {"get_value", "with_ref"}
      /\ Decorated(last)
      /\ Cardinality(RefWrappers(last.ty, last.depth)) >= 2 )
    => last.res = RefResult(last, ValueOf(Max(RefWrappers(last.ty, last.depth))))

C3_Witness ==
    /\ last.op = "get_value"
    /\ Decorated(last)
    /\ RefWrappers(last.ty, last.depth) = {1, 2}
    /\ last.res = Some(ValueOf(2))

\* The wrappers of type T (either kind) among the outermost d wrappers.
TypeWrappers(T, d) == {i \in 1..d : injected[i].ty = T}

\* C4: get_value::<T>() inside provide_ref(&v), with no nearer provider of T,
\* returns Some(v).
C4_GetValueEqualsInjected ==
    ( /\ last.op = "get_value"
      /\ Decorated(last)
      /\ TypeWrappers(last.ty, last.depth) # {}
      /\ injected[Max(TypeWrappers(last.ty, last.depth))].kind = "ProvideRef" )
    => last.res = Some(ValueOf(Max(TypeWrappers(last.ty, last.depth))))

\* get_value polled directly inside the provide_ref wrapper of its type.
C4_Witness ==
    /\ last.op = "get_value"
    /\ Decorated(last)
    /\ last.depth >= 1
    /\ injected[last.depth].kind = "ProvideRef"
    /\ injected[last.depth].ty = last.ty
    /\ last.res = Some(ValueOf(last.depth))

\* C5: get_value and with_ref consume nothing: a call leaves every provider
\* of the chain, references and owned-value cells alike, as it found it, and
\* what it returns depends on the wrappers around it only, not on the
\* retrievals made before it.
C5_GetIsNonConsuming ==
    last.op \in {"get_value", "with_ref"} =>
        /\ providers = last.before
        /\ Decorated(last) =>
              last.res = IF RefWrappers(last.ty, last.depth) = {} THEN None
                         ELSE RefResult(last, ValueOf(Max(RefWrappers(last.ty, last.depth))))

\* get_value answered by a provide_ref wrapper, over a full provide_value
\* cell of the same type.
C5_Witness ==
    /\ last.op = "get_value"
    /\ Decorated(last)
    /\ last.res # None
    /\ \E i \in 1..last.depth :
          /\ providers[i].kind = "ProvideValue"
          /\ providers[i].ty = last.ty
          /\ providers[i].cell # None

\* C6: a retrieval returns None, and does not panic, when the waker it is
\* polled with is no ProviderWaker or when the chain behind it only holds
\* providers of other types.
C6_NoneWithoutProvider ==
    ( /\ last.op \in Retrievals
      /\ \/ ~Decorated(last)
         \/ TypeWrappers(last.ty, last.depth) = {} )
    => (last.res = None /\ ~last.panic)

\* with_ref polled under two wrappers, both of another type.
C6_Witness ==
    /\ last.op = "with_ref"
    /\ Decorated(last)
    /\ last.depth = 2
    /\ TypeWrappers(last.ty, last.depth) = {}
    /\ last.res = None

\* C7: a wake() or wake_by_ref() on the substituted waker wakes the
\* scheduler's waker exactly once, at any nesting depth, and releases no
\* owner of it: the scheduler's waker stays valid.
C7_WakeForwardedOnce ==
    (last.op \in {"wake", "wake_by_ref"} /\ Decorated(last))
    => (last.woke = 1 /\ rc = 1 + (IF cloned = None THEN 0 ELSE 1))

\* wake() two wrappers deep.
C7_Witness ==
    /\ last.op = "wake"
    /\ Decorated(last)
    /\ last.depth = 2
    /\ last.woke = 1

\* C8: a clone of the substituted waker is a plain waker: it does not decode
\* as a ProviderWaker, a retrieval polled with it returns None, and waking it
\* wakes the scheduler's waker.
C8_CloneIsPlain ==
    /\ cloned # None => from_waker_ref(cloned[1], stack) = None
    /\ (last.op \in Retrievals /\ cloned # None /\ last.handle = cloned[1])
          => last.res = None
    /\ last.op = "wake_clone" => last.woke = 1

\* get_value polled with the clone two wrappers deep, where the waker of the
\* Context leads to a provide_ref of that type.
C8_Witness ==
    /\ last.op = "get_value"
    /\ cloned # None
    /\ last.handle = cloned[1]
    /\ last.depth = 2
    /\ RefWrappers(last.ty, last.depth) # {}
    /\ last.res = None

\* C9: a poll of a wrapper polls the computation inside it once and returns
\* its result, Ready(output) or Pending, unchanged.
C9_PollTransparent ==
    /\ pc \in {"unwind", "idle", "done"} => ret = innerRes
    /\ pc = "unwind" => \A i \in (Depth + 1)..(Len(injected) + 1) : polled[i] = 1
    /\ pc = "done" => \A i \in DOMAIN polled : polled[i] = 1

\* Two wrappers have handed Ready(output) up to the scheduler.
C9_Witness ==
    /\ pc = "done"
    /\ Len(injected) = 2
    /\ ret \in {Ready(v) : v \in Outputs}

DistinctTypes == \A i, j \in Wrappers : i # j => injected[i].ty # injected[j].ty

\* C10: lookup goes by type: with wrappers of pairwise distinct types nested
\* in any order, a retrieval of the innermost computation gets the value of
\* the wrapper of its type, however many other wrappers lie in between.
C10_TypeDirected ==
    ( /\ DistinctTypes
      /\ last.op \in Retrievals
      /\ Decorated(last)
      /\ last.depth = Len(injected) )
    => \A k \in Wrappers :
          injected[k].ty = last.ty =>
             /\ (last.op # "take_value" /\ injected[k].kind = "ProvideRef")
                   => last.res = RefResult(last, ValueOf(k))
             /\ (last.op = "take_value" /\ injected[k].kind = "ProvideValue"
                   /\ last.nth[k] = 0)
                   => last.res = Some(ValueOf(k))

\* get_value of the outer wrapper's type, found past the inner wrapper.
C10_Witness ==
    /\ DistinctTypes
    /\ last.op = "get_value"
    /\ Decorated(last)
    /\ last.depth = 2
    /\ injected[1].ty = last.ty
    /\ last.res = Some(ValueOf(1))

\* --------------------------------------------------------------------- C11
\* The wrappers being polled on the call stack at depth d, nearest first.
RECURSIVE NearestFirst(_)
NearestFirst(d) == IF d = 0 THEN <<>> ELSE <<d>> \o NearestFirst(d - 1)

\* The link of wrapper i as ProviderFut::poll builds it from the waker its
\* caller supplied.
FreshLink(i) ==
    ProviderWaker_new(IF i = 1 THEN SchedWaker ELSE use_waker_with(i - 1), i)

\* C11: at every retrieval the chain walked is exactly the wrappers being
\* polled on the call stack above it, nearest first (none through a plain
\* waker); every link on the stack is the one built in the present poll from
\* the caller's waker, and between polls no link and no substituted waker is
\* left: only the providers' cells outlive a poll.
C11_ChainIsCallStack ==
    /\ (last.op \in Retrievals /\ ~last.panic) =>
          /\ last.depth = Depth
          /\ last.walked = (IF Decorated(last)
                            THEN NearestFirst(last.handle.data)
                            ELSE <<>>)
          /\ last.handle = cx => Len(last.walked) = Depth
          /\ \A j \in 1..Len(last.walked) :
                last.walked[j] = stack[Len(last.walked) - j + 1].provider
    /\ \A i \in 1..Depth : stack[i] = FreshLink(i) /\ polled[i] > 0
    /\ cx = (IF Depth = 0 THEN SchedWaker ELSE use_waker_with(Depth))
    /\ pc \in {"idle", "done"} =>
          /\ stack = <<>>
          /\ cx = SchedWaker
          /\ cloned # None => cloned[1] = SchedWaker

\* A retrieval two wrappers deep walked both, the nearer first.
C11_Witness ==
    /\ last.op \in Retrievals
    /\ Decorated(last)
    /\ last.depth = 2
    /\ last.walked = <<2, 1>>

\* --------------------------------------------------------------------- C12
\* The owners of the scheduler's waker that user code accounts for: the
\* scheduler itself and the clone user code keeps.
Owners == 1 + (IF cloned = None THEN 0 ELSE 1)

\* C12: once a wrapper has been discarded (never polled, pending or finished)
\* nothing of it is left: no link, no substituted waker, the scheduler's waker
\* has the owners it had without the wrapper and was not woken, and a
\* retrieval polled with it under no wrapper walks no provider and returns
\* None.
C12_DropLeavesNothing ==
    pc = "dropped" =>
        /\ stack = <<>>
        /\ cx = SchedWaker
        /\ cloned # None => cloned[1] = SchedWaker
        /\ rc = Owners
        /\ last.op \in Retrievals =>
              /\ last.res = None
              /\ ~last.panic
              /\ last.walked = <<>>
              /\ last.woke = 0
              /\ last.owners = rc

\* A wrapper that was polled and is still pending, whose value was injected
\* and not taken, has been discarded, and a retrieval of that value's type ran
\* afterwards with the scheduler's waker.
C12_Witness ==
    /\ pc = "dropped"
    /\ ret = Pending
    /\ \E i \in Wrappers : polled[i] > 0 /\ last.ty = injected[i].ty
    /\ last.op \in Retrievals

\* --------------------------------------------------------------------- C13
\* Task w is inside wait_for_signal on a receiver of the sender.
Waits(w) == wt[w].recv # None /\ wt[w].pc \in {"poll", "loaded", "pending"}

\* shutdown() was called: a thread is past its first statement, or a call
\* has returned.
ShutdownCalled == sh.spc = "stored" \/ sh.n > 0

\* C13: shutdown() reaches every waiter.  Once shutdown() is called, a
\* wait_for_signal on a receiver of the sender, started before or after,
\* completes: no interleaving of store and notify_waiters with notified(),
\* the load and the poll of the notification loses the wake-up.
C13_ShutdownReachesAll ==
    \A w \in Waiters : (ShutdownCalled /\ Waits(w)) ~> (wt[w].pc = "done")

\* A waiter that found the flag clear and joined the waiters before
\* notify_waiters ran was notified and completed, and another started to wait
\* after shutdown() returned and completed.
C13_Witness ==
    \E v, w \in Waiters :
        /\ wt[v].pc = "done"
        /\ wt[v].nst \in {"notified", "done"}
        /\ wt[v].snap = 0
        /\ wt[w].pc = "done"
        /\ wt[w].recv # None
        /\ wt[w].snap > 0

\* --------------------------------------------------------------------- C14
\* C14: wait_for_signal does not complete before shutdown() was called,
\* whether the receiver came from the sender or from from_context().
C14_WaitsForShutdown ==
    \A w \in Waiters : wt[w].pc = "done" => ShutdownCalled

\* --------------------------------------------------------------------- C15
\* The with_deadline wrappers around the task, and the deadline of the
\* context: that of the nearest one.
DeadlineWrappers == {i \in Wrappers : injected[i].kind = "Deadline"}
ContextDeadline ==
    IF DeadlineWrappers = {} THEN None ELSE Some(ValueOf(Max(DeadlineWrappers)))

\* A shutdown handler is registered in the context.
HandlerRegistered ==
    \E i \in Wrappers :
        injected[i].kind = "ShutdownProvider" /\ injected[i].cell # None

\* A poll of run_until_signal has returned.
Returned == rus.pc \in {"ready", "pending"}

\* C15: a poll of run_until_signal(f) returns Completed(output) exactly when
\* f completed in it; it returns ShutdownSignal(f) only with f unfinished and
\* as its poll left it, and only if the context deadline is reached or
\* shutdown() was called on the registered handler; it returns Pending, with
\* f kept, only if neither had happened when the poll began; and the task is
\* not left parked and unwoken once the deadline is reached or shutdown()
\* has returned.
C15_RunUntilSignal ==
    Returned =>
        /\ (rus.res[1] = "Completed") <=> (rus.fres # Pending)
        /\ rus.res[1] = "Completed" => rus.res = <<"Completed", rus.fres[2]>>
        /\ rus.res[1] = "ShutdownSignal" =>
              /\ rus.fres = Pending
              /\ rus.res[2] = rus.fpolls
              /\ \/ ContextDeadline # None /\ now >= ContextDeadline[1]
                 \/ HandlerRegistered /\ ShutdownCalled
        /\ rus.pc = "pending" =>
              /\ rus.res = Pending
              /\ rus.fres = Pending
              /\ rus.inner = Some(rus.fpolls)
              /\ ContextDeadline # None => rus.start < ContextDeadline[1]
              /\ ~(HandlerRegistered /\ rus.called)
              /\ ~(rus.woken \/ wt[1].woken) =>
                    /\ ContextDeadline # None => now < ContextDeadline[1]
                    /\ ~(HandlerRegistered /\ sh.n > 0)

\* With no deadline in the context, a poll returned Pending and a later one,
\* after shutdown(), returned ShutdownSignal with f as its second poll left it.
C15_Witness ==
    /\ rus.pc = "ready"
    /\ rus.res = <<"ShutdownSignal", 2>>
    /\ ContextDeadline = None
    /\ HandlerRegistered
    /\ sh.flag

\* --------------------------------------------------------------------- C16
\* C16: under with_deadline(d), whatever is nested between, a poll of
\* run_until_signal that begins at or after d and leaves its future
\* unfinished returns ShutdownSignal.
C16_EveryDeadlineExpires ==
    \A i \in DeadlineWrappers :
        (Returned /\ rus.fres = Pending /\ rus.start >= ValueOf(i))
            => rus.res[1] = "ShutdownSignal"

\* --------------------------------------------------------------------- C17
\* The provide_value wrappers of type T among the outermost d wrappers whose
\* cell was full in the providers provs.
FullValueWrappers(T, d, provs) ==
    {i \in 1..d : /\ injected[i].kind = "ProvideValue"
                  /\ injected[i].ty = T
                  /\ provs[i].cell # None}

\* C17: demands are form-specific.  A get_value or with_ref is answered by a
\* provide_ref wrapper of its type or not at all, and leaves every cell as it
\* was; a take_value is answered by a provide_value wrapper of its type or not
\* at all.  So a get_value under provide_value wrappers only returns None, and
\* a take_value after it returns the nearest value still in its cell.
C17_FormSpecific ==
    (last.op \in Retrievals /\ Decorated(last)) =>
        /\ last.op \in {"get_value", "with_ref"} =>
              /\ last.res # None =>
                    \E i \in RefWrappers(last.ty, last.depth) :
                        last.res = RefResult(last, ValueOf(i))
              /\ RefWrappers(last.ty, last.depth) = {} => last.res = None
              /\ \A i \in 1..Len(providers) : providers[i].cell = last.before[i].cell
        /\ last.op = "take_value" =>
              LET FW == FullValueWrappers(last.ty, last.handle.data, last.before)
              IN /\ last.res = (IF FW = {} THEN None ELSE Some(ValueOf(Max(FW))))
                 /\ \A i \in 1..Len(providers) :
                       injected[i].kind = "ProvideRef" => providers[i] = last.before[i]

\* get_value under a provide_value wrapper of its type whose cell is full,
\* and under no provide_ref of that type, has returned None.
C17_Witness ==
    /\ last.op = "get_value"
    /\ Decorated(last)
    /\ RefWrappers(last.ty, last.depth) = {}
    /\ FullValueWrappers(last.ty, last.depth, providers) # {}
    /\ last.res = None

\* --------------------------------------------------------------------- C18
\* Wrapper i's provider is changed by the step.
SlotChanged(i) == providers'[i] # providers[i]

\* C18: as long as the wrappers live, a step changes a provider only if it is
\* a take_value::<T>() polled under a provide_value wrapper of T whose cell is
\* full, and the value returned is the one that cell held; the cell is then
\* empty, no other provider changes in that step, and no step fills a cell.
\* Polls without a take_value of T, takes of another type and takes answered
\* by a nearer provider leave the cell as it was.
C18_SlotFrame ==
    [][ Len(providers') = Len(providers) =>
          \A i \in 1..Len(providers) :
              /\ (providers[i].cell = None => providers'[i].cell = None)
              /\ SlotChanged(i) =>
                    /\ injected[i].kind = "ProvideValue"
                    /\ last'.op = "take_value"
                    /\ last'.ty = injected[i].ty
                    /\ Under(last', i)
                    /\ providers[i].cell # None
                    /\ last'.res = providers[i].cell
                    /\ providers'[i] = [providers[i] EXCEPT !.cell = None]
                    /\ \A j \in 1..Len(providers) : j # i => ~SlotChanged(j)
      ]_vars

\* A take_value was answered by the nearer of two provide_value wrappers of
\* its type, and the outer one still holds its value.
C18_Witness ==
    /\ last.op = "take_value"
    /\ Decorated(last)
    /\ \E i, j \in ValueWrappers(last.ty) :
          /\ i < j
          /\ j <= last.depth
          /\ last.res = Some(ValueOf(j))
          /\ providers[j].cell = None
          /\ providers[i].cell # None

\* --------------------------------------------------------------------- C19
\* No provider occurs twice in the walk.
NoRepeat(walk) ==
    \A i, j \in 1..Len(walk) : walk[i] = walk[j] => i = j

\* C19: a retrieval is Ready on its first poll, with any waker and at any
\* depth: it does not return Pending, does not panic, does not wake the waker
\* and leaves its owners as they were, and its walk calls each wrapper behind
\* the waker once and ends.
C19_ResolvesAtOnce ==
    last.op \in Retrievals =>
        /\ ~last.pending
        /\ ~last.panic
        /\ last.woke = 0
        /\ rc = last.owners
        /\ NoRepeat(last.walked)
        /\ Len(last.walked) = (IF Decorated(last) THEN last.handle.data ELSE 0)

\* A retrieval that found nothing under two wrappers, and one made with a
\* plain waker, have resolved.
C19_Witness ==
    /\ last.op \in Retrievals
    /\ last.res = None
    /\ ~last.pending
    /\ \/ Decorated(last) /\ last.depth = 2 /\ Len(last.walked) = 2
       \/ ~Decorated(last) /\ last.depth = 2

\* --------------------------------------------------------------------- C20
\* What get_value::<T>() returns when polled in the position of the
\* operation o: same waker, same stack, the providers o started from.
GetValueAt(o) ==
    GetValueFut_poll(o.handle, o.ty, o.before, stack, [wakes |-> 0, rc |-> rc]).poll[2]

\* C20: with_ref::<T>(F) returns Some(F(v)) exactly when get_value::<T>() in
\* its place returns Some(v), and None otherwise; v is the value of the
\* nearest provide_ref wrapper of T; F is called once when a value is found
\* and not at all when none is.
C20_WithRefAgrees ==
    last.op = "with_ref" =>
        /\ last.res = (IF GetValueAt(last) = None THEN None
                       ELSE Some(F(GetValueAt(last)[1])))
        /\ last.fcalls = (IF GetValueAt(last) = None THEN 0 ELSE 1)
        /\ (last.res # None) =>
              last.res = Some(F(ValueOf(Max(RefWrappers(last.ty, last.depth)))))

\* with_ref under two provide_ref wrappers of its type has applied F to the
\* value of the nearer one.
C20_Witness ==
    /\ last.op = "with_ref"
    /\ Decorated(last)
    /\ RefWrappers(last.ty, last.depth) = {1, 2}
    /\ last.res = Some(F(ValueOf(2)))
    /\ last.fcalls = 1

\* --------------------------------------------------------------------- C21
\* C21: a future that has resolved rejects another poll by panicking.  The
\* second poll of a with_ref future panics: it returns neither Ready nor
\* Pending and does not call the closure.  The SignalOrCompleteFut returns
\* Ready once at most: polled after that it finds inner gone and panics, its
\* first result being the only one.
C21_RepollPanics ==
    /\ last.op = "with_ref_again" =>
          /\ last.panic
          /\ last.res = None
          /\ ~last.pending
          /\ last.fcalls = 0
    /\ rus.readies <= 1
    /\ rus.readies = 1 =>
          /\ rus.pc \in {"ready", "f", "panicked"}
          /\ rus.inner = None
          /\ rus.res[1] \in {"Completed", "ShutdownSignal"}
    /\ rus.pc = "panicked" => rus.readies = 1

\* A with_ref future that had found the deadline was polled again and
\* panicked, and the SignalOrCompleteFut that had returned ShutdownSignal was
\* polled again and panicked.
C21_Witness ==
    /\ last.op = "with_ref_again"
    /\ last.panic
    /\ DeadlineWrappers # {}
    /\ rus.pc = "panicked"
    /\ rus.res[1] = "ShutdownSignal"

\* --------------------------------------------------------------------- C22
\* The context deadline had been reached when the latest poll began.
ExpiredAtStart == ContextDeadline # None /\ rus.start >= ContextDeadline[1]

\* C22: in a poll of run_until_signal, f is polled first: if f is ready the
\* poll returns Completed(output), also when shutdown() was called or the
\* deadline had expired before the poll began, and a signal is returned only
\* with f pending.  The deadline is looked at before the shutdown signal: a
\* poll that begins after the deadline returns by the sleep without polling
\* the ShutdownSignal, and one that returns by the ShutdownSignal polled the
\* sleep first and found it not ready.
C22_CompletionFirst ==
    rus.pc = "ready" =>
        /\ rus.fres # Pending =>
              /\ rus.res = <<"Completed", rus.fres[2]>>
              /\ rus.by = "f"
              /\ rus.sawA = "-" /\ rus.sawB = "-"
        /\ rus.by \in {"a", "b"} =>
              /\ rus.fres = Pending
              /\ rus.res[1] = "ShutdownSignal"
        /\ (rus.fres = Pending /\ ExpiredAtStart) =>
              /\ rus.by = "a"
              /\ rus.sawB = "-"
        /\ rus.by = "b" => rus.sawA \in {"none", "notready"}

\* f completed in a poll that began after the deadline had expired and
\* shutdown() had been called on the registered handler.
C22_Witness ==
    /\ rus.pc = "ready"
    /\ rus.res[1] = "Completed"
    /\ ExpiredAtStart
    /\ HandlerRegistered
    /\ rus.called

\* --------------------------------------------------------------------- C23
\* C23: the SignalOrCompleteFut keeps its inner future across polls.  A poll
\* returns Pending only with f put back as its poll left it, and only if f
\* was pending and the sleep and the ShutdownSignal, where there is one,
\* were polled and not ready; so a poll that follows a Pending finds f and
\* does not panic, however many precede it.  Once f returned Ready it is not
\* polled again.
C23_InnerKept ==
    [][ /\ rus'.pc = "pending" =>
              /\ rus'.inner = Some(rus'.fpolls)
              /\ rus'.fres = Pending
              /\ rus'.sawA = (IF ContextDeadline = None THEN "none" ELSE "notready")
              /\ rus'.sawB = (IF HandlerRegistered THEN "notready" ELSE "none")
        /\ rus'.pc = "panicked" => rus.readies = 1
        /\ (rus.pc = "f" /\ rus'.pc # "f" /\ rus.readies = 0) =>
              /\ rus'.pc # "panicked"
              /\ rus'.fpolls = rus.fpolls + 1
        /\ rus.fres # Pending => rus'.fpolls = rus.fpolls
      ]_vars

\* A second poll in a row returned Pending, f having been polled twice, with
\* a deadline and a shutdown handler in the context.
C23_Witness ==
    /\ rus.pc = "pending"
    /\ rus.fpolls = 2
    /\ rus.inner = Some(2)
    /\ rus.sawA = "notready"
    /\ rus.sawB = "notready"

====
